---- MODULE Spec2Model ----
(***************************************************************************)
(* TarjanPlanner.compute_route: the transport registry loader, the two     *)
(* graph builders and the exact route solver.                              *)
(*                                                                         *)
(* Python values are modelled as follows.  A str is a sequence of          *)
(* one-character strings.  A JSON scalar is a record [t, v, s]: t = "num"  *)
(* with the integer v, or t = "str" with the characters s.  A dict is the  *)
(* sequence of its items in insertion order.  A call's outcome is a record *)
(* whose exc field names the exception that left the call ("None" when it  *)
(* returned).                                                              *)
(***************************************************************************)
EXTENDS Integers, Sequences, FiniteSets, TLC

VARIABLES _modes_of_transport, _transport_network, pc, ret,
          G, stack, best_route, shortest_time, dfs_pc,
          _cached_calls, _instances, _relatives, created, locals

vars == <<_modes_of_transport, _transport_network, pc, ret,
          G, stack, best_route, shortest_time, dfs_pc,
          _cached_calls, _instances, _relatives, created, locals>>

load_vars == <<_modes_of_transport, _transport_network, pc, ret>>

dfs_vars == <<G, stack, best_route, shortest_time, dfs_pc>>

cache_vars == <<_cached_calls>>

rm_vars == <<_instances, _relatives, created>>

menu_vars == <<locals>>

(***************************************************************************)
(* Bounds of the model.                                                    *)
(***************************************************************************)
MaxModes == 2

MaxEntries == 2

MaxPoints == 3

MaxCoord == 1

MaxNodes == 3

MaxWeight == 2

MaxObjects == 3

MaxLines == 2

(***************************************************************************)
(* Python strings and JSON scalars.                                        *)
(***************************************************************************)
Digits == <<"0", "1", "2", "3", "4", "5", "6", "7", "8", "9">>

IsDigit(c) == \E k \in 1..10 : Digits[k] = c

DigitVal(c) == (CHOOSE k \in 1..10 : Digits[k] = c) - 1

Whitespace == {" ", "\n"}

Num(n) == [t |-> "num", v |-> n, s |-> <<>>]

Str(chars) == [t |-> "str", v |-> 0, s |-> chars]

RECURSIVE NatToStr(_)
NatToStr(n) ==
    IF n < 10 THEN <<Digits[n + 1]>>
    ELSE NatToStr(n \div 10) \o <<Digits[(n % 10) + 1]>>

\* str(x) of a JSON scalar: the decimal digits of an int, a str as it is
PyStr(x) ==
    IF x.t = "num"
    THEN (IF x.v < 0 THEN <<"-">> \o NatToStr(0 - x.v) ELSE NatToStr(x.v))
    ELSE x.s

RECURSIVE StrToNat(_)
\* int(s) of a string of decimal digits
StrToNat(s) ==
    IF Len(s) = 0 THEN 0
    ELSE 10 * StrToNat(SubSeq(s, 1, Len(s) - 1)) + DigitVal(s[Len(s)])

\* re.match(r"[+-]?([0-9]*[.])?[0-9]+", s): a sign of length a, a group of
\* length b (digits, then a dot) and c >= 1 digits, matched from the start
\* of s; what follows them is not looked at
MatchNumber(s) ==
    \E a \in 0..1, b \in 0..Len(s), c \in 1..Len(s) :
        /\ a + b + c <= Len(s)
        /\ a = 1 => s[1] \in {"+", "-"}
        /\ b > 0 => /\ \A k \in (a + 1)..(a + b - 1) : IsDigit(s[k])
                    /\ s[a + b] = "."
        /\ \A k \in (a + b + 1)..(a + b + c) : IsDigit(s[k])

\* re.match(r"^\d \d{1,2}$", s): $ matches at the end of s and also just
\* before a newline that ends s
MatchRoute(s) ==
    \E c \in 1..2 :
        /\ \/ Len(s) = 2 + c
           \/ Len(s) = 3 + c /\ s[Len(s)] = "\n"
        /\ IsDigit(s[1])
        /\ s[2] = " "
        /\ \A k \in 3..(2 + c) : IsDigit(s[k])

RECURSIVE PySplit(_)
\* s.split(): the maximal runs of non-whitespace characters of s
PySplit(s) ==
    IF Len(s) = 0 THEN <<>>
    ELSE IF s[1] \in Whitespace THEN PySplit(Tail(s))
    ELSE LET ends == {k \in 1..Len(s) :
                        /\ \A i \in 1..k : s[i] \notin Whitespace
                        /\ k = Len(s) \/ s[k + 1] \in Whitespace}
             k == CHOOSE e \in ends : TRUE
         IN  <<SubSeq(s, 1, k)>> \o PySplit(SubSeq(s, k + 1, Len(s)))

\* tuple(map(int, route.split()))
RouteTuple(route) ==
    LET parts == PySplit(route)
    IN  [k \in 1..Len(parts) |-> StrToNat(parts[k])]

(***************************************************************************)
(* dicts as sequences of items [key, val] in insertion order.              *)
(***************************************************************************)
Keys(d) == {d[k].key : k \in 1..Len(d)}

Get(d, key) == d[CHOOSE k \in 1..Len(d) : d[k].key = key].val

\* d[key] = val: an existing key keeps its place
Put(d, key, val) ==
    IF key \in Keys(d)
    THEN [k \in 1..Len(d) |-> IF d[k].key = key THEN [key |-> key, val |-> val] ELSE d[k]]
    ELSE Append(d, [key |-> key, val |-> val])

(***************************************************************************)
(* The input files of _load_modes.  A file is [found, data]; data is the   *)
(* parsed JSON object, a dict.                                             *)
(***************************************************************************)
NoFile == [found |-> FALSE, data |-> <<>>]

File(d) == [found |-> TRUE, data |-> d]

Mode(speed, cost, transfer) ==
    [speed |-> speed, cost_per_km |-> cost, transfer_time_min |-> transfer]

ModeItems ==
    { [key |-> "bus",   val |-> Mode(Num(60), Num(0), Num(1))],
      [key |-> "bus",   val |-> Mode(Num(0 - 60), Num(0), Num(0))],
      [key |-> "train", val |-> Mode(Num(30), Num(0), Num(0))],
      [key |-> "train", val |-> Mode(Str(<<"f", "a", "s", "t">>), Num(0), Num(0))],
      [key |-> "train", val |-> Mode(Num(30), Str(<<"f", "r", "e", "e">>), Str(<<"x">>))] }

ModeNames == {"bus", "train"}

RouteKeys ==
    << <<"0", " ", "1">>,
       <<"1", " ", "0">>,
       <<"1", " ", "1">>,
       <<"1", " ", "2", "\n">>,
       <<"1", "-", "2">> >>

\* dicts of at most n items drawn from a set, no key twice
RECURSIVE DictsOver(_, _)
DictsOver(items, n) ==
    IF n = 0 THEN {<<>>}
    ELSE LET shorter == DictsOver(items, n - 1)
         IN  shorter \cup
             {Append(d, it) : d \in {x \in shorter : Len(x) = n - 1},
                              it \in items}

DistinctKeys(d) == \A i, j \in 1..Len(d) : d[i].key = d[j].key => i = j

ModeFiles ==
    {NoFile} \cup {File(d) : d \in {x \in DictsOver(ModeItems, MaxModes) : DistinctKeys(x)}}

\* the tables list their keys in the order of RouteKeys
KeyIndex(key) == CHOOSE k \in 1..Len(RouteKeys) : RouteKeys[k] = key

RouteItems == {[key |-> RouteKeys[k], val |-> m] : k \in 1..Len(RouteKeys), m \in ModeNames}

RouteFiles ==
    {NoFile} \cup
    {File(d) : d \in {x \in DictsOver(RouteItems, MaxEntries) :
                        \A i, j \in 1..Len(x) :
                            i < j => KeyIndex(x[i].key) < KeyIndex(x[j].key)}}

(***************************************************************************)
(* _load_modes                                                             *)
(***************************************************************************)
NoneValue == [none |-> TRUE, d |-> <<>>]

Dict(d) == [none |-> FALSE, d |-> d]

\* the three checks of one mode, in the order of the code
ModeError(mode) ==
    IF ~MatchNumber(PyStr(mode.speed)) THEN "speed"
    ELSE IF ~MatchNumber(PyStr(mode.cost_per_km)) THEN "cost_per_km"
    ELSE IF ~MatchNumber(PyStr(mode.transfer_time_min)) THEN "transfer_time_min"
    ELSE "None"

ModesRejected(d) == \E k \in 1..Len(d) : ModeError(d[k].val) # "None"

\* the first try block raises: the routes file is then never opened, and the
\* calls below take it to be absent
RegistryFails(f_modes) == ~f_modes.found \/ ModesRejected(f_modes.data)

RoutesRead(f_modes) == IF RegistryFails(f_modes) THEN {NoFile} ELSE RouteFiles

RouteRejected(item, registry) ==
    \/ ~MatchRoute(item.key)
    \/ item.val \notin Keys(registry)

RECURSIVE InstallRoutes(_, _)
\* the second loop: _transport_network[tuple(map(int, route.split()))] = mode
InstallRoutes(network, table) ==
    IF Len(table) = 0 THEN network
    ELSE InstallRoutes(Put(network, RouteTuple(table[1].key), table[1].val), Tail(table))

Outcome(m, n, exc, msg) == [modes |-> m, network |-> n, exc |-> exc, msg |-> msg]

\* the globals after the call and the exception that leaves it
LoadModes(cur_modes, cur_network, f_modes, f_routes) ==
    IF ~f_modes.found
    THEN Outcome(cur_modes, cur_network, "ModesImportFailed",
                 "Failed to import modes of transport")
    ELSE IF ModesRejected(f_modes.data)
    THEN Outcome(Dict(f_modes.data), cur_network, "ModesImportFailed",
                 "Failed to import modes of transport")
    ELSE IF ~f_routes.found
    THEN Outcome(Dict(f_modes.data), cur_network, "ModesImportFailed",
                 "Failed to import routes")
    ELSE IF \E k \in 1..Len(f_routes.data) : RouteRejected(f_routes.data[k], f_modes.data)
    THEN Outcome(Dict(f_modes.data), Dict(<<>>), "ModesImportFailed",
                 "Failed to import routes")
    ELSE Outcome(Dict(f_modes.data), Dict(InstallRoutes(<<>>, f_routes.data)), "None", "")

(***************************************************************************)
(* The calls.  pc is the position of the caller: "import" while the module *)
(* body runs, "idle" between calls, "returned" when a call has just ended  *)
(* (ret holds its arguments and its outcome), "crashed" when the import    *)
(* itself raised.                                                          *)
(***************************************************************************)
NoGraph == [n |-> 0, pos |-> <<>>, adj |-> <<>>]

NoRet == [op |-> "none", exc |-> "None", msg |-> "", args |-> <<>>, graph |-> NoGraph]

LoadRet(o, f_modes, f_routes) ==
    [op |-> "_load_modes", exc |-> o.exc, msg |-> o.msg,
     args |-> [f_modes |-> f_modes, f_routes |-> f_routes], graph |-> NoGraph]

\* the call at module level (line 107), on the default files
Import ==
    /\ pc = "import"
    /\ \E f_modes \in ModeFiles : \E f_routes \in RoutesRead(f_modes) :
        /\ LET o == LoadModes(_modes_of_transport, _transport_network, f_modes, f_routes)
           IN  /\ _modes_of_transport' = o.modes
               /\ _transport_network' = o.network
               /\ ret' = LoadRet(o, f_modes, f_routes)
               /\ pc' = IF o.exc = "None" THEN "returned" ELSE "crashed"
    /\ UNCHANGED dfs_vars
    /\ UNCHANGED menu_vars
    /\ UNCHANGED <<cache_vars, rm_vars>>

\* a later call of _load_modes, as the tests make
Load ==
    /\ pc = "idle"
    /\ \E f_modes \in ModeFiles : \E f_routes \in RoutesRead(f_modes) :
        /\ LET o == LoadModes(_modes_of_transport, _transport_network, f_modes, f_routes)
           IN  /\ _modes_of_transport' = o.modes
               /\ _transport_network' = o.network
               /\ ret' = LoadRet(o, f_modes, f_routes)
               /\ pc' = "returned"
    /\ UNCHANGED dfs_vars
    /\ UNCHANGED menu_vars
    /\ UNCHANGED <<cache_vars, rm_vars>>

\* the caller takes the result, or catches the exception, and goes on
Resume ==
    /\ pc = "returned"
    /\ pc' = "idle"
    /\ ret' = NoRet
    /\ UNCHANGED <<_modes_of_transport, _transport_network>>
    /\ UNCHANGED dfs_vars
    /\ UNCHANGED menu_vars
    /\ UNCHANGED <<cache_vars, rm_vars>>

(***************************************************************************)
(* Points, distances and travel times.  A point is <<longitude, latitude>> *)
(* on an integer grid; the geodesic distance of geopy is stood for by the  *)
(* grid distance in km.  The speeds of ModeItems divide 60, so the travel  *)
(* time in minutes is computed exactly in the integers.                    *)
(***************************************************************************)
Points == {<<x, 0>> : x \in 0..MaxCoord}

RECURSIVE ListsOver(_, _)
ListsOver(S, n) ==
    IF n = 0 THEN {<<>>}
    ELSE LET shorter == ListsOver(S, n - 1)
         IN  shorter \cup {Append(l, x) : l \in {y \in shorter : Len(y) = n - 1}, x \in S}

PointLists == ListsOver(Points, MaxPoints)

Abs(x) == IF x < 0 THEN 0 - x ELSE x

_calculate_distance_km(start, end) == Abs(start[1] - end[1]) + Abs(start[2] - end[2])

Raised(exc) == [exc |-> exc, val |-> 0]

Value(v) == [exc |-> "None", val |-> v]

\* a / b of two ints with b # 0, exact on the values of the model
Quotient(a, b) ==
    IF b > 0 THEN (IF a >= 0 THEN a \div b ELSE 0 - ((0 - a) \div b))
    ELSE (IF a >= 0 THEN 0 - (a \div (0 - b)) ELSE (0 - a) \div (0 - b))

_calculate_travel_time_no_transfer(registry, start, end, mode) ==
    LET distance == _calculate_distance_km(start, end)
    IN  IF mode \notin Keys(registry) THEN Raised("KeyError")
        ELSE LET speed == Get(registry, mode).speed
                 transfer_time == Get(registry, mode).transfer_time_min
             IN  IF speed.t # "num" THEN Raised("TypeError")
                 ELSE IF speed.v = 0 THEN Raised("ZeroDivisionError")
                 ELSE IF transfer_time.t # "num" THEN Raised("TypeError")
                 ELSE Value(Quotient(distance * 60, speed.v))

\* (distance / speed) * 60 + transfer_time, with the exceptions of the
\* lookups and of the arithmetic on values that are no numbers
_calculate_travel_time(registry, start, end, mode) ==
    LET distance == _calculate_distance_km(start, end)
    IN  IF mode \notin Keys(registry) THEN Raised("KeyError")
        ELSE LET speed == Get(registry, mode).speed
                 transfer_time == Get(registry, mode).transfer_time_min
             IN  IF speed.t # "num" THEN Raised("TypeError")
                 ELSE IF speed.v = 0 THEN Raised("ZeroDivisionError")
                 ELSE IF transfer_time.t # "num" THEN Raised("TypeError")
                 ELSE Value(Quotient(distance * 60, speed.v) + transfer_time.v)

(***************************************************************************)
(* networkx.Graph: n nodes 0..n-1 with their pos attribute, and for each   *)
(* node the dict of its neighbours (adj[node + 1]), each with the          *)
(* attributes of the edge.                                                 *)
(***************************************************************************)
\* Graph() followed by add_node(i, pos=point) for every point
GraphOfNodes(points) ==
    [n |-> Len(points), pos |-> points, adj |-> [k \in 1..Len(points) |-> <<>>]]

\* add_edge(u, v, ...) and the attribute assignments that follow it: both
\* directions share one attribute dict
AddEdge(g, u, v, attrs) ==
    LET adj1 == [g.adj EXCEPT ![u + 1] = Put(g.adj[u + 1], v, attrs)]
        adj2 == [adj1 EXCEPT ![v + 1] = Put(adj1[v + 1], u, attrs)]
    IN  [g EXCEPT !.adj = adj2]

Neighbours(g, u) == Keys(g.adj[u + 1])

HasEdge(g, u, v) == v \in Neighbours(g, u)

EdgeData(g, u, v) == Get(g.adj[u + 1], v)

Nodes(g) == 0..(g.n - 1)

\* number_of_edges(): every edge once, a self-loop included
Edges(g) == {e \in SUBSET Nodes(g) : \E u, v \in e : e = {u, v} /\ HasEdge(g, u, v)}

GraphRaised(exc) == [exc |-> exc, graph |-> NoGraph]

GraphValue(g) == [exc |-> "None", graph |-> g]

PyMinKeyLast(travel_time) ==
    travel_time[CHOOSE k \in 1..Len(travel_time) :
                    /\ \A i \in 1..Len(travel_time) : travel_time[k].val <= travel_time[i].val
                    /\ \A i \in (k + 1)..Len(travel_time) :
                          travel_time[i].val > travel_time[k].val].key

\* the mode min(travel_time, key=travel_time.get) picks: the first key, in
\* the order of the dict, whose value no other key undercuts
PyMinKey(travel_time) ==
    travel_time[CHOOSE k \in 1..Len(travel_time) :
                    /\ \A i \in 1..Len(travel_time) : travel_time[k].val <= travel_time[i].val
                    /\ \A i \in 1..(k - 1) : travel_time[i].val > travel_time[k].val].key

\* the dict comprehension of the travel times of one pair under every mode
TravelTimes(registry, a, b) ==
    [k \in 1..Len(registry) |->
        [key |-> registry[k].key,
         val |-> _calculate_travel_time(registry, a, b, registry[k].key)]]

Swap(point) == <<point[2], point[1]>>

RECURSIVE CompleteEdges(_, _, _, _)
\* the double loop of _initialize_complete_graph from the pair (i, j) on
CompleteEdges(registry, g, i, j) ==
    IF i >= g.n THEN GraphValue(g)
    ELSE IF j >= g.n THEN CompleteEdges(registry, g, i + 1, i + 2)
    ELSE LET times == TravelTimes(registry, Swap(g.pos[i + 1]), Swap(g.pos[j + 1]))
             failed == {k \in 1..Len(times) : times[k].val.exc # "None"}
         IN  IF failed # {}
             THEN GraphRaised(times[CHOOSE k \in failed : \A x \in failed : k <= x].val.exc)
             ELSE IF Len(times) = 0 THEN GraphRaised("ValueError")
             ELSE LET travel_time == [k \in 1..Len(times) |->
                                         [key |-> times[k].key, val |-> times[k].val.val]]
                      optimal_mode == PyMinKey(travel_time)
                      attrs == [weight |-> Get(travel_time, optimal_mode),
                                travel_time |-> Get(travel_time, optimal_mode),
                                mode_of_transport |-> optimal_mode]
                  IN  CompleteEdges(registry, AddEdge(g, i, j, attrs), i, j + 1)

_initialize_complete_graph(registry, points) ==
    CompleteEdges(registry, GraphOfNodes(points), 0, 1)

RECURSIVE RestrictedEdges(_, _, _)
\* the loop of _initialize_graph over the items of _transport_network
RestrictedEdges(registry, g, network) ==
    IF Len(network) = 0 THEN GraphValue(g)
    ELSE LET start == network[1].key[1]
             end == network[1].key[2]
             mode == network[1].val
         IN  IF start >= g.n \/ end >= g.n THEN GraphRaised("IndexError")
             ELSE LET t == _calculate_travel_time(registry, Swap(g.pos[start + 1]),
                                                  Swap(g.pos[end + 1]), mode)
                      attrs == [weight |-> t.val,
                                travel_time |-> t.val,
                                travel_distance |->
                                    _calculate_distance_km(Swap(g.pos[start + 1]),
                                                           Swap(g.pos[end + 1])),
                                mode_of_transport |-> mode]
                  IN  IF t.exc # "None" THEN GraphRaised(t.exc)
                      ELSE RestrictedEdges(registry, AddEdge(g, start, end, attrs),
                                           Tail(network))

_initialize_graph(registry, network, points) ==
    RestrictedEdges(registry, GraphOfNodes(points), network)

GraphRet(op, o, points) ==
    [op |-> op, exc |-> o.exc, msg |-> "", args |-> [points |-> points], graph |-> o.graph]

InitializeGraph ==
    /\ pc = "idle"
    /\ \E points \in PointLists :
        ret' = GraphRet("_initialize_graph",
                        _initialize_graph(_modes_of_transport.d, _transport_network.d, points),
                        points)
    /\ pc' = "returned"
    /\ UNCHANGED <<_modes_of_transport, _transport_network>>
    /\ UNCHANGED dfs_vars
    /\ UNCHANGED menu_vars
    /\ UNCHANGED <<cache_vars, rm_vars>>

InitializeCompleteGraph ==
    /\ pc = "idle"
    /\ \E points \in PointLists :
        ret' = GraphRet("_initialize_complete_graph",
                        _initialize_complete_graph(_modes_of_transport.d, points),
                        points)
    /\ pc' = "returned"
    /\ UNCHANGED <<_modes_of_transport, _transport_network>>
    /\ UNCHANGED dfs_vars
    /\ UNCHANGED menu_vars
    /\ UNCHANGED <<cache_vars, rm_vars>>

(***************************************************************************)
(* _dfs_tsp.  The recursion of recurse_tree is kept as an explicit stack   *)
(* of frames [node, route, cost, it]: route and cost are route[0] and      *)
(* route[1] of the frame, it counts the items of G[node] the for loop has  *)
(* taken.  dfs_pc is "running" during the call, "done" when it returned    *)
(* best_route, "raised" when an exception left it.                         *)
(***************************************************************************)
Infinity == [inf |-> TRUE, v |-> 0]

Finite(x) == [inf |-> FALSE, v |-> x]

LessThanFlipped(cost, shortest) == shortest.inf \/ cost > shortest.v

\* route[1] < shortest_time
LessThan(cost, shortest) == shortest.inf \/ cost < shortest.v

InRouteLastOnly(next_node, route) == route[Len(route)] = next_node

\* next_node in route[0]
InRoute(next_node, route) == \E k \in 1..Len(route) : route[k] = next_node

Frame(node, route, cost) == [node |-> node, route |-> route, cost |-> cost, it |-> 0]

Top == stack[Len(stack)]

Pop == SubSeq(stack, 1, Len(stack) - 1)

\* the call of a frame has ended: the caller goes on, or _dfs_tsp returns
Return(rest) ==
    /\ stack' = rest
    /\ dfs_pc' = IF Len(rest) = 0 THEN "done" ELSE "running"

\* G[node] of a node the graph does not have
RecurseKeyError ==
    /\ dfs_pc = "running"
    /\ Len(Top.route) # G.n
    /\ Top.node \notin Nodes(G)
    /\ dfs_pc' = "raised"
    /\ UNCHANGED <<G, stack, best_route, shortest_time>>
    /\ UNCHANGED load_vars
    /\ UNCHANGED menu_vars
    /\ UNCHANGED <<cache_vars, rm_vars>>

\* the route of the frame is complete: keep it when it is the shortest so far
RecurseComplete ==
    /\ dfs_pc = "running"
    /\ Len(Top.route) = G.n
    /\ IF LessThan(Top.cost, shortest_time)
       THEN /\ shortest_time' = Finite(Top.cost)
            /\ best_route' = Top.route
       ELSE UNCHANGED <<shortest_time, best_route>>
    /\ Return(Pop)
    /\ UNCHANGED G
    /\ UNCHANGED load_vars
    /\ UNCHANGED menu_vars
    /\ UNCHANGED <<cache_vars, rm_vars>>

\* the for loop takes a neighbour that is on the route already
RecurseSkip ==
    /\ dfs_pc = "running"
    /\ Len(Top.route) # G.n
    /\ Top.node \in Nodes(G)
    /\ Top.it < Len(G.adj[Top.node + 1])
    /\ InRoute(G.adj[Top.node + 1][Top.it + 1].key, Top.route)
    /\ stack' = [stack EXCEPT ![Len(stack)].it = @ + 1]
    /\ UNCHANGED <<G, best_route, shortest_time, dfs_pc>>
    /\ UNCHANGED load_vars
    /\ UNCHANGED menu_vars
    /\ UNCHANGED <<cache_vars, rm_vars>>

\* the for loop takes a new neighbour and recurses on a copy of the route
RecurseDescend ==
    /\ dfs_pc = "running"
    /\ Len(Top.route) # G.n
    /\ Top.node \in Nodes(G)
    /\ Top.it < Len(G.adj[Top.node + 1])
    /\ LET item == G.adj[Top.node + 1][Top.it + 1]
       IN  /\ ~InRoute(item.key, Top.route)
           /\ stack' = Append([stack EXCEPT ![Len(stack)].it = @ + 1],
                              Frame(item.key, Append(Top.route, item.key),
                                    Top.cost + item.val.weight))
    /\ UNCHANGED <<G, best_route, shortest_time, dfs_pc>>
    /\ UNCHANGED load_vars
    /\ UNCHANGED menu_vars
    /\ UNCHANGED <<cache_vars, rm_vars>>

\* the for loop is exhausted
RecurseReturn ==
    /\ dfs_pc = "running"
    /\ Len(Top.route) # G.n
    /\ Top.node \in Nodes(G)
    /\ Top.it = Len(G.adj[Top.node + 1])
    /\ Return(Pop)
    /\ UNCHANGED <<G, best_route, shortest_time>>
    /\ UNCHANGED load_vars
    /\ UNCHANGED menu_vars
    /\ UNCHANGED <<cache_vars, rm_vars>>

(***************************************************************************)
(* The graphs _dfs_tsp is run on: up to MaxNodes nodes, every pair of      *)
(* nodes joined or not, with a weight in 0..MaxWeight, and at most one     *)
(* self-loop; the edges are added pair by pair in the order of Pairs.      *)
(***************************************************************************)
RECURSIVE PairsFrom(_, _, _)
PairsFrom(u, v, n) ==
    IF u >= n - 1 THEN <<>>
    ELSE IF v >= n THEN PairsFrom(u + 1, u + 2, n)
    ELSE <<<<u, v>>>> \o PairsFrom(u, v + 1, n)

\* the pairs u < v of the nodes 0..n-1: (0,1), (0,2), ..., (1,2), ...
Pairs(n) == PairsFrom(0, 1, n)

NoEdge == 0 - 1

RECURSIVE AddWeighted(_, _, _, _)
AddWeighted(g, pairs, w, k) ==
    IF k > Len(pairs) THEN g
    ELSE AddWeighted(IF w[k] = NoEdge THEN g
                     ELSE AddEdge(g, pairs[k][1], pairs[k][2], [weight |-> w[k]]),
                     pairs, w, k + 1)

WeightedGraph(n, pairs, w, loop) ==
    LET g == AddWeighted(GraphOfNodes([k \in 1..n |-> <<0, 0>>]), pairs, w, 1)
    IN  IF loop = NoEdge THEN g ELSE AddEdge(g, loop, loop, [weight |-> 0])

IdleDfs ==
    /\ G = NoGraph
    /\ stack = <<>>
    /\ best_route = <<>>
    /\ shortest_time = Infinity
    /\ dfs_pc = "idle"

\* no decorated function has been called, no RelativesManager constructed
IdleApp ==
    /\ _cached_calls = <<>>
    /\ _instances = <<>>
    /\ _relatives = <<>>
    /\ created = 0
    /\ locals = <<>>

\* the state at the first call of recurse_tree(G, 0, [best_route, 0])
DfsCalled(g) ==
    /\ G = g
    /\ best_route = <<0>>
    /\ shortest_time = Infinity
    /\ stack = <<Frame(0, <<0>>, 0)>>
    /\ dfs_pc = "running"

(***************************************************************************)
(* RelativesManager.  A relative is the dict add_relative stores; names,   *)
(* streets and districts are strings, latitude and longitude JSON scalars. *)
(* The class is modelled as its text reads, with the name of line 10       *)
(* (RMAddRelativeFaiied, which exceptions.py spells RMAddRelativeFailed)   *)
(* standing for the exception class the methods raise.                     *)
(*                                                                         *)
(* _instances is the dict of Singleton, from the class to its instance; an *)
(* instance is the number of the object, created counts the objects made,  *)
(* and _relatives is the list of the registered instance.                  *)
(***************************************************************************)
Relative(name, street_name, district, latitude, longitude) ==
    [name |-> name, street_name |-> street_name, district |-> district,
     latitude |-> latitude, longitude |-> longitude]

RelativeNames == {"", "A", "B"}

Addresses == {<<"s", "d">>, <<"", "d">>, <<"s", "">>}

NotANumber == Str(<<"n", "o">>)

Latitudes == {Num(0), NotANumber}

Longitudes == {Num(x) : x \in 0..MaxCoord} \cup {NotANumber}

RelativeArgs ==
    {Relative(name, a[1], a[2], latitude, longitude) :
        name \in RelativeNames, a \in Addresses,
        latitude \in Latitudes, longitude \in Longitudes}

HasNameOfLast(relatives, name) ==
    Len(relatives) > 0 /\ relatives[Len(relatives)].name = name

\* the loop over self._relatives that looks for the name
HasName(relatives, name) == \E k \in 1..Len(relatives) : relatives[k].name = name

Added(exc, relatives) == [exc |-> exc, relatives |-> relatives]

\* the list after the call and the exception that leaves it
add_relative(relatives, r) ==
    IF HasName(relatives, r.name) THEN Added("None", relatives)
    ELSE IF ~MatchNumber(PyStr(r.latitude)) THEN Added("RMAddRelativeFaiied", relatives)
    ELSE IF ~MatchNumber(PyStr(r.longitude)) THEN Added("RMAddRelativeFaiied", relatives)
    ELSE Added("None", Append(relatives, r))

RECURSIVE AddAll(_, _)
\* for relative in ...: self.add_relative(**relative)
AddAll(relatives, list) ==
    IF Len(list) = 0 THEN Added("None", relatives)
    ELSE LET o == add_relative(relatives, list[1])
         IN  IF o.exc # "None" THEN o ELSE AddAll(o.relatives, Tail(list))

\* a jsonl file: one relative per line
NoFileName == [none |-> TRUE, file |-> NoFile]

FileName(file) == [none |-> FALSE, file |-> file]

\* the _relatives of the new object and the exception that leaves __init__
__init__(relatives_list, json_fname) ==
    IF (relatives_list.none \/ Len(relatives_list.d) = 0) /\ json_fname.none
    THEN Added("RMSetupFailed", <<>>)
    ELSE LET listed == IF relatives_list.none THEN Added("None", <<>>)
                       ELSE AddAll(<<>>, relatives_list.d)
         IN  IF listed.exc # "None" \/ json_fname.none THEN listed
             ELSE IF ~json_fname.file.found THEN Added("RMSetupFailed", listed.relatives)
             ELSE AddAll(listed.relatives, json_fname.file.data)

CtorRelatives ==
    {Relative("A", "s", "d", Num(0), Num(0)),
     Relative("A", "", "d", Num(0), Num(0)),
     Relative("B", "s", "d", NotANumber, Num(0))}

CtorLists == {NoneValue} \cup {Dict(l) : l \in ListsOver(CtorRelatives, 1)}

CtorFileNames ==
    {NoFileName, FileName(NoFile)}
        \cup {FileName(File(l)) : l \in ListsOver(CtorRelatives, MaxLines)}

CtorRet(exc, instance, init_ran) ==
    [op |-> "RelativesManager", exc |-> exc, msg |-> "", args |-> <<>>, graph |-> NoGraph,
     instance |-> instance, init_ran |-> init_ran]

RegisteredNever == FALSE

\* cls in cls._instances
Registered == "RelativesManager" \in Keys(_instances)

\* RelativesManager(relatives_list, json_fname): Singleton.__call__
Construct ==
    /\ pc = "idle"
    /\ IF Registered
       THEN /\ ret' = CtorRet("None", Get(_instances, "RelativesManager"), FALSE)
            /\ UNCHANGED rm_vars
       ELSE /\ created < MaxObjects
            /\ \E relatives_list \in CtorLists, json_fname \in CtorFileNames :
                 LET o == __init__(relatives_list, json_fname)
                 IN  /\ created' = created + 1
                     /\ ret' = CtorRet(o.exc, created + 1, TRUE)
                     /\ IF o.exc = "None"
                        THEN /\ _instances' = Put(_instances, "RelativesManager", created + 1)
                             /\ _relatives' = o.relatives
                        ELSE UNCHANGED <<_instances, _relatives>>
    /\ pc' = "returned"
    /\ UNCHANGED <<_modes_of_transport, _transport_network>>
    /\ UNCHANGED dfs_vars
    /\ UNCHANGED menu_vars
    /\ UNCHANGED cache_vars

AddRelativeRet(exc, r) ==
    [op |-> "add_relative", exc |-> exc, msg |-> "", args |-> r, graph |-> NoGraph]

\* rm.add_relative(...) on the instance, with arguments out of a set
AddRelativeOf(args) ==
    /\ pc = "idle"
    /\ Registered
    /\ \E r \in args :
         LET o == add_relative(_relatives, r)
         IN  /\ _relatives' = o.relatives
             /\ ret' = AddRelativeRet(o.exc, r)
    /\ pc' = "returned"
    /\ UNCHANGED <<_instances, created>>
    /\ UNCHANGED <<_modes_of_transport, _transport_network>>
    /\ UNCHANGED dfs_vars
    /\ UNCHANGED menu_vars
    /\ UNCHANGED cache_vars

AddRelative == AddRelativeOf(RelativeArgs)

(***************************************************************************)
(* _dfs_tsp as one call: recurse_tree as a recursive operator that hands   *)
(* on best = [route, time], the nonlocal best_route and shortest_time.     *)
(***************************************************************************)
Best(route, time) == [route |-> route, time |-> time]

RECURSIVE recurse_tree(_, _, _, _, _), NeighbourLoop(_, _, _, _, _, _)
recurse_tree(g, node, route, cost, best) ==
    IF Len(route) = g.n
    THEN (IF LessThan(cost, best.time) THEN Best(route, Finite(cost)) ELSE best)
    ELSE NeighbourLoop(g, node, route, cost, 1, best)

\* for next_node, data in G[node].items(), from the it-th item on
NeighbourLoop(g, node, route, cost, it, best) ==
    IF it > Len(g.adj[node + 1]) THEN best
    ELSE LET item == g.adj[node + 1][it]
         IN  NeighbourLoop(g, node, route, cost, it + 1,
                           IF InRoute(item.key, route) THEN best
                           ELSE recurse_tree(g, item.key, Append(route, item.key),
                                             cost + item.val.weight, best))

\* G[0] in the first call is the one lookup that can fail: every later node
\* is a key of the graph
_dfs_tsp(g) ==
    IF Len(<<0>>) # g.n /\ 0 \notin Nodes(g) THEN Raised("KeyError")
    ELSE Value(recurse_tree(g, 0, <<0>>, 0, Best(<<0>>, Infinity)).route)

\* the call taken step by step ends as the call taken at once
StepsAgreeWithCall ==
    /\ dfs_pc = "done" => _dfs_tsp(G) = Value(best_route)
    /\ dfs_pc = "raised" => _dfs_tsp(G) = Raised("KeyError")

(***************************************************************************)
(* The cache decorator.  _cached_calls is a dict from the name of the      *)
(* function to [args, kwargs, ret].  An argument is a value, or a          *)
(* reference to the list object of the RelativesManager: the tuple args    *)
(* keeps the objects the caller passed, so that the stored list is the     *)
(* list as it now is.                                                      *)
(***************************************************************************)
Val(v) == [ref |-> 0, v |-> v]

Ref(object) == [ref |-> object, v |-> <<>>]

\* the contents of an argument now
Contents(x) == IF x.ref = 0 THEN x.v ELSE _relatives

\* x == y of Python: an object equals itself, two lists are compared item
\* by item
PyEq(x, y) == (x.ref # 0 /\ x.ref = y.ref) \/ Contents(x) = Contents(y)

ArgsEqual(a, b) ==
    /\ Len(a) = Len(b)
    /\ \A k \in 1..Len(a) : PyEq(a[k], b[k])

NoKwargs == <<>>

Slot(args, kwargs, value) == [args |-> args, kwargs |-> kwargs, ret |-> value]

HitByName(calls, fname, args, kwargs) == fname \in Keys(calls)

\* the negation of the condition of lines 64-68
Hit(calls, fname, args, kwargs) ==
    /\ fname \in Keys(calls)
    /\ ArgsEqual(Get(calls, fname).args, args)
    /\ Get(calls, fname).kwargs = kwargs

Called(calls, exc, value, executed) ==
    [calls |-> calls, exc |-> exc, value |-> value, executed |-> executed]

\* the wrapper w of cache(f): o is the outcome of f(*args, **kwargs), with
\* the _cached_calls that f leaves
cache(calls, fname, args, kwargs, o) ==
    IF Hit(calls, fname, args, kwargs)
    THEN Called(calls, "None", Get(calls, fname).ret, FALSE)
    ELSE IF o.exc # "None" THEN Called(o.calls, o.exc, o.value, TRUE)
    ELSE Called(Put(o.calls, fname, Slot(args, kwargs, o.value)), "None", o.value, TRUE)

NoValue == <<>>

\* the body of _find_optimal_route
_find_optimal_route(calls, registry, network, points) ==
    LET graph == _initialize_graph(registry, network, points)
        optimal_route == _dfs_tsp(graph.graph)
    IN  IF graph.exc # "None" THEN Called(calls, graph.exc, NoValue, TRUE)
        ELSE IF optimal_route.exc # "None" THEN Called(calls, optimal_route.exc, NoValue, TRUE)
        ELSE Called(calls, "None",
                    [graph |-> graph.graph, optimal_route |-> optimal_route.val], TRUE)

CallRet(op, args, o) ==
    [op |-> op, exc |-> o.exc, msg |-> "", args |-> args, graph |-> NoGraph,
     value |-> o.value, executed |-> o.executed]

\* a call of the decorated _find_optimal_route
FindOptimalRoute ==
    /\ pc = "idle"
    /\ \E points \in PointLists :
         LET args == <<Val(points)>>
             o == cache(_cached_calls, "_find_optimal_route", args, NoKwargs,
                        _find_optimal_route(_cached_calls, _modes_of_transport.d,
                                            _transport_network.d, points))
         IN  /\ _cached_calls' = o.calls
             /\ ret' = CallRet("_find_optimal_route", args, o)
    /\ pc' = "returned"
    /\ UNCHANGED <<_modes_of_transport, _transport_network>>
    /\ UNCHANGED dfs_vars
    /\ UNCHANGED menu_vars
    /\ UNCHANGED rm_vars

(***************************************************************************)
(* The files of the runs with the cache: two registries of the same modes  *)
(* and a few tables over the nodes 0..2.                                   *)
(***************************************************************************)
BusTrain ==
    <<[key |-> "bus", val |-> Mode(Num(60), Num(0), Num(1))],
      [key |-> "train", val |-> Mode(Num(30), Num(0), Num(0))]>>

SlowBusTrain ==
    <<[key |-> "bus", val |-> Mode(Num(30), Num(0), Num(1))],
      [key |-> "train", val |-> Mode(Num(30), Num(0), Num(0))]>>

Route(start, end, mode) == [key |-> <<start, " ", end>>, val |-> mode]

Triangle == <<Route("0", "1", "bus"), Route("0", "2", "bus"), Route("1", "2", "train")>>

CacheModeFiles == {NoFile, File(BusTrain), File(SlowBusTrain)}

CacheRouteFiles ==
    {File(<<Route("0", "1", "bus")>>),
     File(<<Route("0", "1", "bus"), Route("1", "2", "bus")>>),
     File(Triangle)}

\* a later call of _load_modes on these files
Reload ==
    /\ pc = "idle"
    /\ \E f_modes \in CacheModeFiles, f_routes \in CacheRouteFiles :
        /\ LET o == LoadModes(_modes_of_transport, _transport_network, f_modes, f_routes)
           IN  /\ _modes_of_transport' = o.modes
               /\ _transport_network' = o.network
               /\ ret' = LoadRet(o, f_modes, f_routes)
               /\ pc' = "returned"
    /\ UNCHANGED dfs_vars
    /\ UNCHANGED menu_vars
    /\ UNCHANGED <<cache_vars, rm_vars>>

\* the globals after the import has loaded a registry and a table
Imported(registry, table) ==
    /\ _modes_of_transport = Dict(registry)
    /\ _transport_network = Dict(InstallRoutes(<<>>, table))
    /\ pc = "idle"
    /\ ret = NoRet

(***************************************************************************)
(* calculate_route.  start_point is <<latitude, longitude>>; the figure is *)
(* stood for by the two totals its title shows.                            *)
(***************************************************************************)
RECURSIVE Sum(_)
Sum(values) == IF Len(values) = 0 THEN 0 ELSE values[1] + Sum(Tail(values))

\* the start point and the relatives, longitude first
Coordinates(start_point, relatives) ==
    <<<<start_point[2], start_point[1]>>>> \o
        [k \in 1..Len(relatives) |-> <<relatives[k].longitude.v, relatives[k].latitude.v>>]

RoutePointsInInputOrder(coordinates, optimal_route) ==
    [k \in 1..Len(optimal_route) |-> coordinates[k]]

\* [coordinates[node] for node in optimal_route]
RoutePoints(coordinates, optimal_route) ==
    [k \in 1..Len(optimal_route) |-> coordinates[optimal_route[k] + 1]]

Figure(total_travel_time, total_travel_distance) ==
    [total_travel_time |-> total_travel_time, total_travel_distance |-> total_travel_distance]

\* the body of calculate_route on the contents of relatives; the edges of
\* a route are all different, so that travel_distances has one item per leg
calculate_route(calls, registry, network, start_point, relatives) ==
    LET coordinates == Coordinates(start_point, relatives)
        found == cache(calls, "_find_optimal_route", <<Val(coordinates)>>, NoKwargs,
                       _find_optimal_route(calls, registry, network, coordinates))
    IN  IF found.exc # "None" THEN Called(found.calls, found.exc, NoValue, TRUE)
        ELSE LET graph == found.value.graph
                 optimal_route == found.value.optimal_route
                 optimal_route_points == RoutePoints(coordinates, optimal_route)
                 legs == 1..(Len(optimal_route) - 1)
                 total_travel_time ==
                     Sum([k \in legs |->
                            EdgeData(graph, optimal_route[k], optimal_route[k + 1]).travel_time])
                 total_travel_distance ==
                     Sum([k \in legs |->
                            _calculate_distance_km(Swap(optimal_route_points[k]),
                                                   Swap(optimal_route_points[k + 1]))])
             IN  Called(found.calls, "None",
                        [fig |-> Figure(total_travel_time, total_travel_distance),
                         optimal_route_points |-> optimal_route_points],
                        TRUE)

StartPoints == {<<0, x>> : x \in 0..MaxCoord}

\* the relatives of the runs with calculate_route: all on the grid
RouteRelatives ==
    {Relative(name, "s", "d", Num(0), Num(x)) : name \in {"A", "B", "C"}, x \in 0..MaxCoord}

AddRouteRelative == AddRelativeOf(RouteRelatives)

\* calculate_route(start_point, rm.get_relatives()), or the same call on a
\* copy of the list
CalculateRoute ==
    /\ pc = "idle"
    /\ Registered
    /\ \E start_point \in StartPoints,
          relatives \in {Ref(Get(_instances, "RelativesManager")), Val(_relatives)} :
         LET args == <<Val(start_point), relatives>>
             o == cache(_cached_calls, "calculate_route", args, NoKwargs,
                        calculate_route(_cached_calls, _modes_of_transport.d,
                                        _transport_network.d, start_point,
                                        Contents(relatives)))
         IN  /\ _cached_calls' = o.calls
             /\ ret' = CallRet("calculate_route", args, o)
    /\ pc' = "returned"
    /\ UNCHANGED <<_modes_of_transport, _transport_network>>
    /\ UNCHANGED dfs_vars
    /\ UNCHANGED menu_vars
    /\ UNCHANGED rm_vars

(***************************************************************************)
(* start(), the menu loop.  locals is the dict of the local variables of   *)
(* start that are bound.  pc is "menu" while the loop waits in menu(),     *)
(* "exited" after option 0 and "crashed" when an exception has left        *)
(* start: none is caught in the loop.  ret tells what the last pass of the *)
(* loop did: the choice, the functions and methods it called, whether it   *)
(* warned, and the exception that left it.                                 *)
(***************************************************************************)
BoundAlways(name) == TRUE

\* "name" in locals()
Bound(name) == name \in Keys(locals)

MenuRet(choice, called, warned, exc) ==
    [op |-> "start", exc |-> exc, msg |-> "", args |-> <<>>, graph |-> NoGraph,
     choice |-> choice, called |-> called, warned |-> warned]

\* the pass only warns and goes back to the menu
Warn(choice) ==
    /\ ret' = MenuRet(choice, {}, TRUE, "None")
    /\ pc' = "menu"
    /\ UNCHANGED <<cache_vars, rm_vars, menu_vars>>

\* an exception leaves start
Crash(choice, called, exc) ==
    /\ ret' = MenuRet(choice, called, FALSE, exc)
    /\ pc' = "crashed"

\* a local that is not bound is read: UnboundLocalError leaves start
Unbound(choice) ==
    /\ Crash(choice, {}, "UnboundLocalError")
    /\ UNCHANGED <<cache_vars, rm_vars, menu_vars>>

\* the pass is done and the loop goes on
Continue(choice, called) ==
    /\ ret' = MenuRet(choice, called, FALSE, "None")
    /\ pc' = "menu"

\* data/relatives.jsonl, with relatives on the grid
MenuFiles == {NoFile} \cup {File(l) : l \in ListsOver(RouteRelatives, MaxLines)}

\* the texts the user types for a latitude or a longitude
CoordinateTexts == {<<"0">>, <<"n", "o">>}

\* float(text) returns: the texts of the model are digits or letters
IsFloat(text) == Len(text) > 0 /\ \A k \in 1..Len(text) : IsDigit(text[k])

\* Tarjan's home, on the grid
Home == <<0, 0>>

\* option 1: rm = RelativesManager(json_fname=...)
ImportRelatives ==
    /\ pc = "menu"
    /\ IF Registered
       THEN /\ locals' = Put(locals, "rm", Ref(Get(_instances, "RelativesManager")))
            /\ Continue(1, {"RelativesManager"})
            /\ UNCHANGED rm_vars
       ELSE /\ created < MaxObjects
            /\ \E file \in MenuFiles :
                 LET o == __init__(NoneValue, FileName(file))
                 IN  /\ created' = created + 1
                     /\ IF o.exc = "None"
                        THEN /\ _instances' = Put(_instances, "RelativesManager", created + 1)
                             /\ _relatives' = o.relatives
                             /\ locals' = Put(locals, "rm", Ref(created + 1))
                             /\ Continue(1, {"RelativesManager"})
                        ELSE /\ Crash(1, {"RelativesManager"}, o.exc)
                             /\ UNCHANGED <<_instances, _relatives, locals>>
    /\ UNCHANGED <<_modes_of_transport, _transport_network>>
    /\ UNCHANGED dfs_vars
    /\ UNCHANGED cache_vars

\* the locals after the two float(input(...)): a text that is no float
\* leaves the variable as it was
AfterInput(name, district, lat, lon) ==
    LET named == Put(Put(locals, "name", name), "district", district)
        with_lat == IF IsFloat(lat) THEN Put(named, "lat", StrToNat(lat)) ELSE named
    IN  IF IsFloat(lon) THEN Put(with_lat, "lon", StrToNat(lon)) ELSE with_lat

\* option 2: rm.add_relative(name, district, lat, lon), four arguments for
\* the five parameters of add_relative
AddNewRelative ==
    /\ pc = "menu"
    /\ IF ~Bound("rm") THEN Warn(2)
       ELSE /\ \E name \in {"A"}, district \in {"d"}, lat, lon \in CoordinateTexts :
                 /\ locals' = AfterInput(name, district, lat, lon)
                 /\ IF {"rm", "lat", "lon"} \subseteq Keys(AfterInput(name, district, lat, lon))
                    THEN Crash(2, {"add_relative"}, "TypeError")
                    ELSE Crash(2, {}, "UnboundLocalError")
            /\ UNCHANGED <<cache_vars, rm_vars>>
    /\ UNCHANGED <<_modes_of_transport, _transport_network>>
    /\ UNCHANGED dfs_vars

\* option 3: rm.list_relatives()
ListAllRelatives ==
    /\ pc = "menu"
    /\ IF ~Bound("rm") THEN Warn(3)
       ELSE IF "rm" \notin Keys(locals) THEN Unbound(3)
       ELSE /\ Continue(3, {"list_relatives"})
            /\ UNCHANGED <<cache_vars, rm_vars, menu_vars>>
    /\ UNCHANGED <<_modes_of_transport, _transport_network>>
    /\ UNCHANGED dfs_vars

\* option 4: fig = calculate_route(home, rm.get_relatives())
CalculateOptimalRoute ==
    /\ pc = "menu"
    /\ IF ~Bound("rm") THEN Warn(4)
       ELSE IF "rm" \notin Keys(locals) THEN Unbound(4)
       ELSE LET args == <<Val(Home), Get(locals, "rm")>>
                o == cache(_cached_calls, "calculate_route", args, NoKwargs,
                           calculate_route(_cached_calls, _modes_of_transport.d,
                                           _transport_network.d, Home,
                                           Contents(Get(locals, "rm"))))
            IN  /\ _cached_calls' = o.calls
                /\ IF o.exc = "None"
                   THEN /\ locals' = Put(locals, "fig", o.value)
                        /\ Continue(4, {"get_relatives", "calculate_route"})
                   ELSE /\ Crash(4, {"get_relatives", "calculate_route"}, o.exc)
                        /\ UNCHANGED locals
                /\ UNCHANGED rm_vars
    /\ UNCHANGED <<_modes_of_transport, _transport_network>>
    /\ UNCHANGED dfs_vars

\* plot.show() of display_route: the value calculate_route returns is the
\* tuple (fig, optimal_route_points), which has no show
display_route(plot) ==
    IF "optimal_route_points" \in DOMAIN plot THEN Raised("RouteDisplayingError")
    ELSE Value(0)

\* save_route(plot) without optimal_route, which has no default
save_route(plot) == Raised("TypeError")

\* option 5: display_route(fig)
DisplayRoute ==
    /\ pc = "menu"
    /\ IF ~Bound("fig") THEN Warn(5)
       ELSE IF "fig" \notin Keys(locals) THEN Unbound(5)
       ELSE /\ IF display_route(Get(locals, "fig")).exc = "None"
               THEN Continue(5, {"display_route"})
               ELSE Crash(5, {"display_route"}, display_route(Get(locals, "fig")).exc)
            /\ UNCHANGED <<cache_vars, rm_vars, menu_vars>>
    /\ UNCHANGED <<_modes_of_transport, _transport_network>>
    /\ UNCHANGED dfs_vars

\* option 6: save_route(fig)
SaveRoute ==
    /\ pc = "menu"
    /\ IF ~Bound("fig") THEN Warn(6)
       ELSE IF "fig" \notin Keys(locals) THEN Unbound(6)
       ELSE /\ IF save_route(Get(locals, "fig")).exc = "None"
               THEN Continue(6, {"save_route"})
               ELSE Crash(6, {"save_route"}, save_route(Get(locals, "fig")).exc)
            /\ UNCHANGED <<cache_vars, rm_vars, menu_vars>>
    /\ UNCHANGED <<_modes_of_transport, _transport_network>>
    /\ UNCHANGED dfs_vars

\* option 0: break
Quit ==
    /\ pc = "menu"
    /\ ret' = MenuRet(0, {}, FALSE, "None")
    /\ pc' = "exited"
    /\ UNCHANGED <<_modes_of_transport, _transport_network>>
    /\ UNCHANGED dfs_vars
    /\ UNCHANGED <<cache_vars, rm_vars, menu_vars>>

Init ==
    /\ _modes_of_transport = NoneValue
    /\ _transport_network = NoneValue
    /\ pc = "import"
    /\ ret = NoRet
    /\ IdleDfs
    /\ IdleApp

Next ==
    \/ Import
    \/ Load
    \/ Resume
    \/ InitializeGraph
    \/ InitializeCompleteGraph

Spec == Init /\ [][Next]_vars

\* _dfs_tsp alone, called on every graph within the bounds
InitDfs ==
    /\ _modes_of_transport = NoneValue
    /\ _transport_network = NoneValue
    /\ pc = "idle"
    /\ ret = NoRet
    /\ IdleApp
    /\ \E n \in 0..MaxNodes :
        \E w \in [1..Len(Pairs(n)) -> NoEdge..MaxWeight], loop \in NoEdge..(n - 1) :
            DfsCalled(WeightedGraph(n, Pairs(n), w, loop))

NextDfs ==
    \/ RecurseKeyError
    \/ RecurseComplete
    \/ RecurseSkip
    \/ RecurseDescend
    \/ RecurseReturn

SpecDfs == InitDfs /\ [][NextDfs]_vars

\* the RelativesManager alone
InitRM ==
    /\ _modes_of_transport = NoneValue
    /\ _transport_network = NoneValue
    /\ pc = "idle"
    /\ ret = NoRet
    /\ IdleDfs
    /\ IdleApp

NextRM ==
    \/ Construct
    \/ AddRelative
    \/ Resume

SpecRM == InitRM /\ [][NextRM]_vars

\* the cached _find_optimal_route, with _load_modes called in between
InitCache ==
    /\ Imported(BusTrain, Triangle)
    /\ IdleDfs
    /\ IdleApp

NextCache ==
    \/ Reload
    \/ FindOptimalRoute
    \/ Resume

SpecCache == InitCache /\ [][NextCache]_vars

\* a caller that keeps a RelativesManager, adds relatives to it and
\* calculates routes over its list
InitRoute ==
    /\ Imported(BusTrain, Triangle)
    /\ IdleDfs
    /\ IdleApp

NextRoute ==
    \/ Construct
    \/ AddRouteRelative
    \/ CalculateRoute
    \/ Resume

SpecRoute == InitRoute /\ [][NextRoute]_vars

\* start() in a fresh process
InitMenu ==
    /\ _modes_of_transport = Dict(BusTrain)
    /\ _transport_network = Dict(InstallRoutes(<<>>, Triangle))
    /\ pc = "menu"
    /\ ret = NoRet
    /\ IdleDfs
    /\ IdleApp

NextMenu ==
    \/ ImportRelatives
    \/ AddNewRelative
    \/ ListAllRelatives
    \/ CalculateOptimalRoute
    \/ DisplayRoute
    \/ SaveRoute
    \/ Quit

SpecMenu == InitMenu /\ [][NextMenu]_vars

\* the same, with the interpreter always taking the next step of the call
SpecDfsFair == SpecDfs /\ WF_vars(NextDfs)

(***************************************************************************)
(* The routes a solver may return: the Hamiltonian paths from node 0.      *)
(***************************************************************************)
HamiltonianPaths(g) ==
    IF g.n = 0 THEN {}
    ELSE {p \in [1..g.n -> Nodes(g)] :
            /\ p[1] = 0
            /\ \A i, j \in 1..g.n : p[i] = p[j] => i = j
            /\ \A k \in 1..(g.n - 1) : HasEdge(g, p[k], p[k + 1])}

Range(s) == {s[k] : k \in 1..Len(s)}

RECURSIVE RouteWeight(_, _, _)
\* the sum of the weights of the edges route[k] -- route[k + 1] from k on
RouteWeight(g, route, k) ==
    IF k >= Len(route) THEN 0
    ELSE EdgeData(g, route[k], route[k + 1]).weight + RouteWeight(g, route, k + 1)

\* C1: on a graph that has a Hamiltonian path from node 0, the list _dfs_tsp
\* returns begins with node 0, holds every node of the graph exactly once and
\* joins consecutive nodes by edges of the graph only.
C1_DfsReturnsHamiltonianPath ==
    (dfs_pc = "done" /\ HamiltonianPaths(G) # {}) =>
        /\ Len(best_route) = G.n
        /\ best_route[1] = 0
        /\ \A node \in Nodes(G) :
              Cardinality({k \in 1..Len(best_route) : best_route[k] = node}) = 1
        /\ \A k \in 1..(Len(best_route) - 1) : HasEdge(G, best_route[k], best_route[k + 1])

C1_Witness ==
    /\ dfs_pc = "done"
    /\ G.n = 3
    /\ Cardinality(HamiltonianPaths(G)) = 1
    /\ \E u \in Nodes(G) : HasEdge(G, u, u)

\* C2: on a graph that has a Hamiltonian path from node 0, the weight of the
\* route _dfs_tsp returns is at most the weight of every Hamiltonian path
\* that starts at node 0.
C2_DfsRouteIsShortest ==
    (dfs_pc = "done" /\ HamiltonianPaths(G) # {}) =>
        \A p \in HamiltonianPaths(G) : RouteWeight(G, best_route, 1) <= RouteWeight(G, p, 1)

C2_Witness ==
    /\ dfs_pc = "done"
    /\ G.n = 3
    /\ \E p \in HamiltonianPaths(G) : RouteWeight(G, best_route, 1) < RouteWeight(G, p, 1)
    /\ best_route = <<0, 2, 1>>

\* C3: when the graph has no Hamiltonian path from node 0, _dfs_tsp hands no
\* route to its caller: a call that returns returns a route over every node
\* of a graph that has such a path.
C3_NoRouteWithoutHamiltonianPath ==
    dfs_pc = "done" =>
        /\ HamiltonianPaths(G) # {}
        /\ Range(best_route) = Nodes(G)

\* C4: a _load_modes call that fails on the mode registry leaves
\* _modes_of_transport as it was before the call.
C4_FailedLoadKeepsRegistry ==
    [][(/\ pc = "idle"
        /\ ret'.op = "_load_modes"
        /\ ret'.exc = "ModesImportFailed"
        /\ ret'.msg = "Failed to import modes of transport")
       => _modes_of_transport' = _modes_of_transport]_vars

IsNumber(x) == x.t = "num"

\* C5: after a _load_modes call that returned, every mode has a numeric
\* speed > 0, a numeric cost_per_km >= 0 and a numeric transfer_time_min >= 0.
C5_LoadedModesAreValid ==
    (ret.op = "_load_modes" /\ ret.exc = "None") =>
        \A k \in 1..Len(_modes_of_transport.d) :
            LET mode == _modes_of_transport.d[k].val
            IN  /\ IsNumber(mode.speed) /\ mode.speed.v > 0
                /\ IsNumber(mode.cost_per_km) /\ mode.cost_per_km.v >= 0
                /\ IsNumber(mode.transfer_time_min) /\ mode.transfer_time_min.v >= 0

\* C6: once the module is imported, every mode name stored as a value of
\* _transport_network is a key of the current _modes_of_transport.
C6_NetworkModesAreLoaded ==
    pc \in {"idle", "returned"} =>
        \A k \in 1..Len(_transport_network.d) :
            _transport_network.d[k].val \in Keys(_modes_of_transport.d)

\* "two small integers separated by one space": one digit, one space, one or
\* two digits, and nothing else
TwoSmallIntegers(key) ==
    /\ Len(key) \in {3, 4}
    /\ key[2] = " "
    /\ \A k \in (1..Len(key)) \ {2} : IsDigit(key[k])

\* the call read the fixed edge table
ReadRoutes == ret.op = "_load_modes" /\ ret.args.f_routes.found

\* C7: a _load_modes call whose fixed edge table has a key that is not two
\* small integers separated by one space, or a value that names no mode of
\* the loaded registry, raises ModesImportFailed and installs no entry of
\* the table into _transport_network.
C7_BadTableIsRejected ==
    (/\ ReadRoutes
     /\ \E k \in 1..Len(ret.args.f_routes.data) :
           \/ ~TwoSmallIntegers(ret.args.f_routes.data[k].key)
           \/ ret.args.f_routes.data[k].val \notin Keys(ret.args.f_modes.data))
    => /\ ret.exc = "ModesImportFailed"
       /\ _transport_network.d = <<>>

Built(op) == ret.op = op /\ ret.exc = "None"

\* C8: a graph built by _initialize_graph is undirected and has no
\* self-loop.
C8_RestrictedGraphHasNoSelfLoop ==
    Built("_initialize_graph") =>
        /\ \A u, v \in Nodes(ret.graph) : HasEdge(ret.graph, u, v) <=> HasEdge(ret.graph, v, u)
        /\ \A u \in Nodes(ret.graph) : ~HasEdge(ret.graph, u, u)

\* C9: a graph built by _initialize_graph has exactly as many edges as the
\* loaded fixed edge table has entries.
C9_RestrictedGraphEdgeCount ==
    Built("_initialize_graph") =>
        Cardinality(Edges(ret.graph)) = Len(_transport_network.d)

\* the travel time of the pair (i, j) of a built graph under the k-th mode of
\* the registry, by the formula of the specification
TimeUnder(g, i, j, k) ==
    LET m == _modes_of_transport.d[k].val
    IN  Quotient(_calculate_distance_km(g.pos[i + 1], g.pos[j + 1]) * 60, m.speed.v)
            + m.transfer_time_min.v

Fastest(g, i, j, k) ==
    \A other \in 1..Len(_modes_of_transport.d) : TimeUnder(g, i, j, k) <= TimeUnder(g, i, j, other)

\* C10: for N >= 2 points, the graph _initialize_complete_graph returns has
\* exactly N*(N-1)/2 edges, one per pair i < j; the weight of each is the
\* least travel time over the loaded modes, and its mode is the first mode
\* in load order that achieves it.
C10_CompleteGraphPicksFastestMode ==
    (Built("_initialize_complete_graph") /\ ret.graph.n >= 2) =>
        LET g == ret.graph
        IN  /\ Cardinality(Edges(g)) = (g.n * (g.n - 1)) \div 2
            /\ \A i, j \in Nodes(g) : i < j =>
                  /\ HasEdge(g, i, j)
                  /\ \E k \in 1..Len(_modes_of_transport.d) :
                        /\ Fastest(g, i, j, k)
                        /\ \A earlier \in 1..(k - 1) : ~Fastest(g, i, j, earlier)
                        /\ EdgeData(g, i, j).weight = TimeUnder(g, i, j, k)
                        /\ EdgeData(g, i, j).mode_of_transport = _modes_of_transport.d[k].key

C10_Witness ==
    /\ Built("_initialize_complete_graph")
    /\ ret.graph.n = 3
    /\ Len(_modes_of_transport.d) = 2
    /\ \E i, j \in Nodes(ret.graph) :
          /\ i < j
          /\ Fastest(ret.graph, i, j, 1)
          /\ Fastest(ret.graph, i, j, 2)
    /\ \E i, j \in Nodes(ret.graph) :
          /\ i < j
          /\ ~Fastest(ret.graph, i, j, 1)

\* the travel time of the pair (u, v) of a built graph under the mode m, by
\* the formula of the specification
TimeOfMode(g, u, v, m) ==
    LET mode == Get(_modes_of_transport.d, m)
    IN  Quotient(_calculate_distance_km(g.pos[u + 1], g.pos[v + 1]) * 60, mode.speed.v)
            + mode.transfer_time_min.v

EdgeTimeIsOfItsMode(g) ==
    \A u, v \in Nodes(g) : HasEdge(g, u, v) =>
        LET data == EdgeData(g, u, v)
        IN  /\ data.weight = data.travel_time
            /\ data.mode_of_transport \in Keys(_modes_of_transport.d)
            /\ data.weight = TimeOfMode(g, u, v, data.mode_of_transport)

\* C11: in both strategies the weight of every edge equals its travel_time
\* attribute and equals distance / speed * 60 + transfer time for the mode
\* recorded on the edge; in the restricted strategy that mode is one the
\* fixed edge table assigns to the edge.
C11_EdgeWeightIsTravelTime ==
    /\ Built("_initialize_complete_graph") => EdgeTimeIsOfItsMode(ret.graph)
    /\ Built("_initialize_graph") =>
          /\ EdgeTimeIsOfItsMode(ret.graph)
          /\ \A u, v \in Nodes(ret.graph) : HasEdge(ret.graph, u, v) =>
                \E k \in 1..Len(_transport_network.d) :
                    /\ _transport_network.d[k].key \in {<<u, v>>, <<v, u>>}
                    /\ _transport_network.d[k].val = EdgeData(ret.graph, u, v).mode_of_transport

\* a restricted graph whose edge carries a transfer time and lies between
\* two different points, under a registry of two modes
C11_Witness ==
    /\ Built("_initialize_graph")
    /\ Len(_modes_of_transport.d) = 2
    /\ \E u, v \in Nodes(ret.graph) :
          /\ HasEdge(ret.graph, u, v)
          /\ ret.graph.pos[u + 1] # ret.graph.pos[v + 1]
          /\ EdgeData(ret.graph, u, v).weight = 2
          /\ EdgeData(ret.graph, u, v).mode_of_transport = "bus"

\* C12: both graph builders reject a point list of fewer than two points
\* with GraphConstructionError before they build anything.
C12_ShortListIsRejected ==
    (/\ ret.op \in {"_initialize_graph", "_initialize_complete_graph"}
     /\ Len(ret.args.points) < 2)
    => ret.exc = "GraphConstructionError"

NoNodeTwice(route) ==
    \A i, j \in 1..Len(route) : i # j => route[i] # route[j]

\* the frame above the k-th one was called on the route of the k-th,
\* extended by a node that was not on it
ExtendsByNewNode(k) ==
    /\ stack[k + 1].route = Append(stack[k].route, stack[k + 1].node)
    /\ \A i \in 1..Len(stack[k].route) : stack[k].route[i] # stack[k + 1].node

Stored(name) == \E k \in 1..Len(_relatives) : _relatives[k].name = name

IsNumeric(x) == x.t = "num"

\* C16: no two stored relatives ever have the same name: add_relative with
\* a name that is stored already returns without raising and leaves the list
\* unchanged, and add_relative with a new name and numeric coordinates
\* appends exactly that one record at the end.
C16_NamesStayUnique ==
    /\ [](\A i, j \in 1..Len(_relatives) :
            _relatives[i].name = _relatives[j].name => i = j)
    /\ [][(pc = "idle" /\ ret'.op = "add_relative") =>
            /\ Stored(ret'.args.name) =>
                  /\ ret'.exc = "None"
                  /\ _relatives' = _relatives
            /\ (/\ ~Stored(ret'.args.name)
                /\ IsNumeric(ret'.args.latitude)
                /\ IsNumeric(ret'.args.longitude)) =>
                  /\ ret'.exc = "None"
                  /\ _relatives' = Append(_relatives, ret'.args)]_vars

\* a call with a stored name and other data has returned, the list still
\* holding the older record, and it is not the last of the list
C16_Witness ==
    /\ ret.op = "add_relative"
    /\ ret.exc = "None"
    /\ Len(_relatives) = 3
    /\ _relatives[1].name = ret.args.name
    /\ _relatives[1] # ret.args
    /\ _relatives[3].name = ""

\* C17: add_relative raises RMAddRelativeFailed (the code spells the name
\* RMAddRelativeFaiied) whenever name, street_name or district is the empty
\* string, or latitude or longitude is not a number.
C17_BadRelativeIsRejected ==
    (/\ ret.op = "add_relative"
     /\ \/ ret.args.name = ""
        \/ ret.args.street_name = ""
        \/ ret.args.district = ""
        \/ ~IsNumeric(ret.args.latitude)
        \/ ~IsNumeric(ret.args.longitude))
    => ret.exc \in {"RMAddRelativeFailed", "RMAddRelativeFaiied"}

\* C19: at most one RelativesManager is registered; once a construction has
\* succeeded, every later construction returns that instance, with its
\* relatives unchanged, without making an object or running __init__; a
\* construction that raises registers nothing, so that the next one runs
\* __init__ again.
C19_OneInstance ==
    /\ [](Len(_instances) <= 1)
    /\ [][Len(_instances) = 1 => _instances' = _instances]_vars
    /\ [][(pc = "idle" /\ ret'.op = "RelativesManager") =>
            IF Len(_instances) = 1
            THEN /\ ret'.exc = "None"
                 /\ ret'.instance = _instances[1].val
                 /\ ~ret'.init_ran
                 /\ UNCHANGED <<_instances, _relatives, created>>
            ELSE /\ ret'.init_ran
                 /\ created' = created + 1
                 /\ IF ret'.exc = "None"
                    THEN _instances' = <<[key |-> "RelativesManager", val |-> ret'.instance]>>
                    ELSE _instances' = <<>>]_vars

\* after a construction that raised and one that succeeded, a third call
\* has returned the second object without running __init__
C19_Witness ==
    /\ ret.op = "RelativesManager"
    /\ ~ret.init_ran
    /\ created = 2
    /\ ret.instance = 2
    /\ Len(_relatives) = 2

\* C13: once _load_modes has changed the modes or the fixed network, a call
\* of _find_optimal_route returns the graph and the route computed under the
\* modes and the network now loaded, also when its arguments equal those of
\* the cached call.
C13_ResultIsOfLoadedModes ==
    (ret.op = "_find_optimal_route" /\ ret.exc = "None") =>
        LET fresh == _find_optimal_route(<<>>, _modes_of_transport.d, _transport_network.d,
                                         ret.args[1].v)
        IN  /\ fresh.exc = "None"
            /\ ret.value = fresh.value

SlotOf(fname) == _cached_calls[CHOOSE k \in 1..Len(_cached_calls) : _cached_calls[k].key = fname].val

HasSlot(fname) == \E k \in 1..Len(_cached_calls) : _cached_calls[k].key = fname

DecoratedFunctions == {"_find_optimal_route", "calculate_route"}

\* C14: _cached_calls holds one slot per decorated function.  A call whose
\* arguments equal the slot's returns the stored result without executing
\* the function and leaves the cache as it is; any other call executes the
\* function, and replaces the slot by its arguments and result when it
\* returns, or leaves the cache unchanged when it raises.
C14_SingleSlotPerFunction ==
    /\ [](/\ Len(_cached_calls) <= Cardinality(DecoratedFunctions)
          /\ \A i, j \in 1..Len(_cached_calls) :
                _cached_calls[i].key = _cached_calls[j].key => i = j)
    /\ [][(pc = "idle" /\ ret'.op = "_find_optimal_route") =>
            IF HasSlot(ret'.op) /\ SlotOf(ret'.op).args = ret'.args
            THEN /\ ~ret'.executed
                 /\ ret'.exc = "None"
                 /\ ret'.value = SlotOf(ret'.op).ret
                 /\ _cached_calls' = _cached_calls
            ELSE /\ ret'.executed
                 /\ IF ret'.exc = "None"
                    THEN _cached_calls' =
                             <<[key |-> ret'.op,
                                val |-> [args |-> ret'.args, kwargs |-> <<>>,
                                         ret |-> ret'.value]]>>
                    ELSE _cached_calls' = _cached_calls]_vars

\* a call with other arguments than the slot's has raised and has left the
\* slot of the earlier call in place
C14_Witness ==
    /\ ret.op = "_find_optimal_route"
    /\ ret.executed
    /\ ret.exc = "IndexError"
    /\ HasSlot("_find_optimal_route")
    /\ Len(SlotOf("_find_optimal_route").args[1].v) = 3
    /\ Len(ret.args[1].v) = 2

\* the graph and the route the solver handed to the last calculate_route
Found == SlotOf("_find_optimal_route").ret

\* the coordinates of the arguments of the last call: the start point
\* first, then the relatives in the order of the list
InputCoordinates(k) ==
    IF k = 0 THEN <<ret.args[1].v[2], ret.args[1].v[1]>>
    ELSE LET relative == (IF ret.args[2].ref = 0 THEN ret.args[2].v ELSE _relatives)[k]
         IN  <<relative.longitude.v, relative.latitude.v>>

RECURSIVE TimeAlong(_, _, _), DistanceAlong(_, _)
TimeAlong(g, route, k) ==
    IF k >= Len(route) THEN 0
    ELSE EdgeData(g, route[k], route[k + 1]).travel_time + TimeAlong(g, route, k + 1)

DistanceAlong(points, k) ==
    IF k >= Len(points) THEN 0
    ELSE Abs(points[k][1] - points[k + 1][1]) + Abs(points[k][2] - points[k + 1][2])
             + DistanceAlong(points, k + 1)

\* C15: when calculate_route has run and returned, the coordinate sequence
\* it returns is coordinates[r[k]] for each position k of the route r the
\* solver returned, coordinates[0] being the start point and coordinates[i]
\* the i-th relative; the total travel time is the sum of the travel_time of
\* the edges between consecutive route nodes, the total distance the sum of
\* the distances between consecutive route points; and the call leaves the
\* relatives as they were.
C15_RouteIsAggregated ==
    /\ []((ret.op = "calculate_route" /\ ret.executed /\ ret.exc = "None") =>
            LET r == Found.optimal_route
                points == ret.value.optimal_route_points
            IN  /\ Len(points) = Len(r)
                /\ \A k \in 1..Len(r) : points[k] = InputCoordinates(r[k])
                /\ ret.value.fig.total_travel_time = TimeAlong(Found.graph, r, 1)
                /\ ret.value.fig.total_travel_distance = DistanceAlong(points, 1))
    /\ [][(pc = "idle" /\ ret'.op = "calculate_route") =>
            UNCHANGED <<_relatives, _instances>>]_vars

\* a route that visits the second relative before the first, over legs of
\* different lengths
C15_Witness ==
    /\ ret.op = "calculate_route"
    /\ ret.executed
    /\ ret.exc = "None"
    /\ Found.optimal_route = <<0, 2, 1>>
    /\ ret.value.fig.total_travel_distance = 1
    /\ ret.value.fig.total_travel_time = 3

\* C18: every calculate_route call returns the coordinate sequence computed
\* from the contents of relatives at the time of the call, also when the
\* call is answered from the cache.
C18_RouteIsOfCurrentRelatives ==
    (ret.op = "calculate_route" /\ ret.exc = "None") =>
        LET fresh == calculate_route(<<>>, _modes_of_transport.d, _transport_network.d,
                                     ret.args[1].v,
                                     IF ret.args[2].ref = 0 THEN ret.args[2].v ELSE _relatives)
        IN  /\ fresh.exc = "None"
            /\ ret.value.optimal_route_points = fresh.value.optimal_route_points

\* the functions of the relatives manager the menu calls
ManagerCalls == {"add_relative", "list_relatives", "get_relatives"}

\* the functions of the route the menu calls
FigureCalls == {"display_route", "save_route"}

\* the pass that ends in the next state did nothing but warn
OnlyWarns ==
    /\ ret'.warned
    /\ ret'.called = {}
    /\ ret'.exc = "None"
    /\ pc' = "menu"
    /\ UNCHANGED <<_modes_of_transport, _transport_network, cache_vars, rm_vars, menu_vars>>

\* C21: in every pass of the menu loop, options 2, 3 and 4 call the
\* relatives manager only when an earlier option 1 has constructed it, and
\* options 5 and 6 call display_route or save_route only when an earlier
\* option 4 has returned from calculate_route; without that the option only
\* warns, changes nothing and the loop is back in the menu.
C21_OptionsAreGuarded ==
    [][pc = "menu" =>
         /\ (ret'.choice \in {2, 3, 4} /\ ~Registered) => OnlyWarns
         /\ (ret'.choice \in {5, 6} /\ ~HasSlot("calculate_route")) => OnlyWarns
         /\ ret'.called \cap ManagerCalls # {} => Registered
         /\ ret'.called \cap FigureCalls # {} => HasSlot("calculate_route")]_vars

\* option 5 has called display_route, on the figure an option 4 left for two
\* imported relatives
C21_Witness ==
    /\ ret.op = "start"
    /\ ret.choice = 5
    /\ "display_route" \in ret.called
    /\ Len(_relatives) = 2
    /\ Len(Get(locals, "fig").optimal_route_points) > 1

====
